---- MODULE Spec2Model ----
(***************************************************************************)
(* EquationAlphabet: equations x OP y = z over the first n uppercase       *)
(* letters, their generators, the brute-force solver and the relabeler.    *)
(*                                                                         *)
(* Representation of Python values:                                        *)
(*   str   a sequence of code points ("A" is <<65>>, "A+B=C" is            *)
(*         <<65,43,66,61,67>>), compared lexicographically by code point   *)
(*   tuple / list   a sequence                                             *)
(*   dict  a sequence of <<key, value>> pairs in insertion order, keys     *)
(*         distinct; dict equality ignores the order (DictFn)              *)
(*   a call's outcome   Ok(v) for "return v", Raise(kind, msg) for an      *)
(*         exception                                                       *)
(* Every library function is one operator; a call is one action that       *)
(* applies it to arguments drawn by Init.                                  *)
(***************************************************************************)
EXTENDS Integers, Sequences, FiniteSets, TLC

VARIABLES pc, fn, arg, ret

vars == <<pc, fn, arg, ret>>

----------------------------------------------------------------------------
(* Bounds of the model *)

\* solver calls: alphabet size n (below SolveSize) plus bundle length is at
\* most SolveSize
SolveSize == 5
\* relabel calls: number of labels plus number of equations is at most RelabelSize
RelabelSize == 4
\* SimpleEquation operands range over -1 .. MaxOperand
MaxOperand == 3
\* generators are called with every n in 1 - Margin .. 26 + Margin
Margin == 2

----------------------------------------------------------------------------
(* Python values *)

ord_A == 65
Plus == <<43>>
Star == <<42>>
Equals == <<61>>

Ok(v) == [kind |-> "ok", value |-> v]
Raise(kind, msg) == [kind |-> kind, msg |-> msg]
NoResult == [kind |-> "none"]

\* range(lo, hi) as a list
range(lo, hi) == [i \in 1..(IF hi > lo THEN hi - lo ELSE 0) |-> lo + i - 1]

\* s < t for two strings (or two tuples of integers): lexicographic order
RECURSIVE StrLess(_, _)
StrLess(s, t) ==
    IF t = <<>> THEN FALSE
    ELSE IF s = <<>> THEN TRUE
    ELSE IF Head(s) # Head(t) THEN Head(s) < Head(t)
    ELSE StrLess(Tail(s), Tail(t))

\* the concatenation of the lists ss[lo], ..., ss[hi]
RECURSIVE FlattenRange(_, _, _)
FlattenRange(ss, lo, hi) ==
    IF lo > hi THEN <<>>
    ELSE IF lo = hi THEN ss[lo]
    ELSE LET m == (lo + hi) \div 2
         IN FlattenRange(ss, lo, m) \o FlattenRange(ss, m + 1, hi)

Flatten(ss) == FlattenRange(ss, 1, Len(ss))

\* dict operations
Keys(d) == {d[i][1] : i \in 1..Len(d)}
HasKey(d, k) == k \in Keys(d)
Get(d, k) == d[CHOOSE i \in 1..Len(d) : d[i][1] = k][2]
DictFn(d) == [k \in Keys(d) |-> Get(d, k)]

\* zip(a, b)
zip(a, b) == [i \in 1..(IF Len(a) < Len(b) THEN Len(a) ELSE Len(b)) |-> <<a[i], b[i]>>]

\* itertools.product(a, b, c)
product(a, b, c) ==
    Flatten([i \in 1..Len(a) |->
        Flatten([j \in 1..Len(b) |->
            [k \in 1..Len(c) |-> <<a[i], b[j], c[k]>>]])])

\* mutant: the first element is chosen from the last position down
RECURSIVE permutations_descending(_)
permutations_descending(s) ==
    IF s = <<>> THEN << <<>> >>
    ELSE Flatten([i \in 1..Len(s) |->
            LET pick == Len(s) + 1 - i
                rest == permutations_descending(
                            SubSeq(s, 1, pick - 1) \o SubSeq(s, pick + 1, Len(s)))
            IN [j \in 1..Len(rest) |-> <<s[pick]>> \o rest[j]]])

\* itertools.permutations(s): position-lexicographic order
RECURSIVE permutations(_)
permutations(s) ==
    IF s = <<>> THEN << <<>> >>
    ELSE Flatten([i \in 1..Len(s) |->
            LET rest == permutations(SubSeq(s, 1, i - 1) \o SubSeq(s, i + 1, Len(s)))
            IN [j \in 1..Len(rest) |-> <<s[i]>> \o rest[j]]])

\* the r-element combinations of s[start], ..., s[Len(s)], in position order
RECURSIVE combinations_from(_, _, _)
combinations_from(s, start, r) ==
    IF r = 0 THEN << <<>> >>
    ELSE Flatten([i \in 1..(IF Len(s) - r + 1 >= start THEN Len(s) - r + 2 - start ELSE 0) |->
            LET first == start + i - 1
                rest == combinations_from(s, first + 1, r - 1)
            IN [j \in 1..Len(rest) |-> <<s[first]>> \o rest[j]]])

\* itertools.combinations(s, r) for r >= 0: position-lexicographic order
combinations(s, r) == combinations_from(s, 1, r)

----------------------------------------------------------------------------
(* Generators *)

\* [chr(ord("A") + i) for i in range(n)]
symbols(n) == [i \in 1..(IF n > 0 THEN n ELSE 0) |-> <<ord_A + (i - 1)>>]

ops == <<Plus, Star>>

\* mutant: the upper end of the range is excluded (n < 26)
generate_all_equations_below_26(n) ==
    IF ~(1 <= n /\ n < 26) THEN <<>>
    ELSE LET triples == product(symbols(n), symbols(n), symbols(n))
         IN Flatten([t \in 1..Len(triples) |->
                [o \in 1..Len(ops) |->
                    <<ops[o], triples[t][1], triples[t][2], triples[t][3]>>]])

\* src/generate.py
generate_all_equations(n) ==
    IF ~(1 <= n /\ n <= 26) THEN <<>>
    ELSE LET triples == product(symbols(n), symbols(n), symbols(n))
         IN Flatten([t \in 1..Len(triples) |->
                [o \in 1..Len(ops) |->
                    <<ops[o], triples[t][1], triples[t][2], triples[t][3]>>]])

\* mutant: only the lower end of the range is checked
generator_generate_all_equations_no_upper(n) ==
    IF ~(1 <= n) THEN <<>>
    ELSE LET triples == product(symbols(n), symbols(n), symbols(n))
         IN Flatten([t \in 1..Len(triples) |->
                [o \in 1..Len(ops) |->
                    <<triples[t][1], ops[o], triples[t][2], triples[t][3]>>]])

\* src/equation_alphabet/generator.py
generator_generate_all_equations(n) ==
    IF ~(1 <= n /\ n <= 26) THEN <<>>
    ELSE LET triples == product(symbols(n), symbols(n), symbols(n))
         IN Flatten([t \in 1..Len(triples) |->
                [o \in 1..Len(ops) |->
                    <<triples[t][1], ops[o], triples[t][2], triples[t][3]>>]])

\* mutant: the third form is x op y = y instead of x op y = x
forms_for_subset_result_y(x, y, z) ==
    << <<x, Plus, x, x>>, <<x, Star, x, x>>,
       <<x, Plus, x, y>>, <<x, Star, x, y>>,
       <<x, Plus, y, y>>, <<x, Star, y, y>>,
       <<x, Plus, y, z>>, <<x, Star, y, z>> >>

\* the eight forms of one 3-variable subset
forms_for_subset(x, y, z) ==
    << <<x, Plus, x, x>>, <<x, Star, x, x>>,
       <<x, Plus, x, y>>, <<x, Star, x, y>>,
       <<x, Plus, y, x>>, <<x, Star, y, x>>,
       <<x, Plus, y, z>>, <<x, Star, y, z>> >>

generate_representative_equations(n) ==
    IF ~(1 <= n /\ n <= 26) THEN <<>>
    ELSE IF n < 3 THEN
        LET A == <<ord_A>>
            B == <<ord_A + 1>>
            forms == << <<A, Plus, A, A>>, <<A, Star, A, A>> >>
        IN IF n = 2
           THEN forms \o << <<A, Plus, A, B>>, <<A, Star, A, B>>,
                            <<A, Plus, B, A>>, <<A, Star, B, A>> >>
           ELSE forms
    ELSE LET subsets == combinations(symbols(n), 3)
         IN Flatten([s \in 1..Len(subsets) |->
                forms_for_subset(subsets[s][1], subsets[s][2], subsets[s][3])])

----------------------------------------------------------------------------
(* Equation model (src/models.py, SimpleEquation.py) *)

VALID_OPS == {Plus, Star}

SimpleEquation(op, var1, var2, var3) == [op |-> op, var1 |-> var1, var2 |-> var2, var3 |-> var3]

evaluate(self) ==
    IF self.op = Plus THEN Ok(self.var1 + self.var2)
    ELSE IF self.op = Star THEN Ok(self.var1 * self.var2)
    ELSE Raise("ValueError", "Unsupported operator")

\* isinstance(v, int) and v > 0, for an integer v
is_positive_int(v) == v > 0

\* mutant: the consistency check comes first, before the operator check
is_valid_consistency_first(self, require_consistency) ==
    LET ev == evaluate(self)
    IN IF require_consistency /\ ev.kind # "ok" THEN ev
       ELSE IF require_consistency /\ ev.value # self.var3 THEN Ok(FALSE)
       ELSE IF self.op \notin VALID_OPS THEN Ok(FALSE)
       ELSE IF ~(\A v \in {self.var1, self.var2, self.var3} : is_positive_int(v)) THEN Ok(FALSE)
       ELSE Ok(TRUE)

is_valid(self, require_consistency) ==
    IF self.op \notin VALID_OPS THEN Ok(FALSE)
    ELSE IF ~(\A v \in {self.var1, self.var2, self.var3} : is_positive_int(v)) THEN Ok(FALSE)
    ELSE IF require_consistency
    THEN LET ev == evaluate(self)
         IN IF ev.kind # "ok" THEN ev
            ELSE IF ev.value # self.var3 THEN Ok(FALSE)
            ELSE Ok(TRUE)
    ELSE Ok(TRUE)

validate(self, require_consistency) ==
    IF self.op \notin VALID_OPS THEN Raise("ValueError", "Operator must be one of ['*', '+'].")
    ELSE IF ~is_positive_int(self.var1) THEN Raise("ValueError", "var1 must be a positive integer (>0).")
    ELSE IF ~is_positive_int(self.var2) THEN Raise("ValueError", "var2 must be a positive integer (>0).")
    ELSE IF ~is_positive_int(self.var3) THEN Raise("ValueError", "var3 must be a positive integer (>0).")
    ELSE IF require_consistency
    THEN LET ev == evaluate(self)
         IN IF ev.kind # "ok" THEN ev
            ELSE IF ev.value # self.var3 THEN Raise("ValueError", "Inconsistent equation")
            ELSE Ok("None")
    ELSE Ok("None")

\* mutant: the operands are compared in order
equivalent_ordered(self, other) ==
    IF self.op # other.op THEN FALSE
    ELSE IF self.var3 # other.var3 THEN FALSE
    ELSE <<self.var1, self.var2>> = <<other.var1, other.var2>>

equivalent(self, other) ==
    IF self.op # other.op THEN FALSE
    ELSE IF self.var3 # other.var3 THEN FALSE
    ELSE {self.var1, self.var2} = {other.var1, other.var2}

\* f"{var1}{sep}{op}{sep}{var2}{sep}={sep}{res}"
stringify_equation(eq, sep) ==
    eq[1] \o sep \o eq[2] \o sep \o eq[3] \o sep \o Equals \o sep \o eq[4]

----------------------------------------------------------------------------
(* Solver (src/equations/solver.py) *)

\* mutant: the loop leaves after its first equation
is_valid_assignment_first_only(assignment, equations, i) ==
    IF i > Len(equations) THEN Ok(TRUE)
    ELSE LET var1_name == equations[i][1]
             op        == equations[i][2]
             var2_name == equations[i][3]
             res_name  == equations[i][4]
         IN IF \/ ~HasKey(assignment, var1_name)
               \/ ~HasKey(assignment, var2_name)
               \/ ~HasKey(assignment, res_name)
            THEN Raise("KeyError", "assignment")
            ELSE LET val1    == Get(assignment, var1_name)
                     val2    == Get(assignment, var2_name)
                     res_val == Get(assignment, res_name)
                     se      == SimpleEquation(op, val1, val2, res_val)
                     ev      == evaluate(se)
                 IN IF ev.kind # "ok" THEN ev
                    ELSE Ok(ev.value = res_val)

\* the inner loop (for eq in equations) from equation i on: Ok(TRUE) when the
\* assignment satisfies them all, Ok(FALSE) at the first one it violates
RECURSIVE is_valid_assignment(_, _, _)
is_valid_assignment(assignment, equations, i) ==
    IF i > Len(equations) THEN Ok(TRUE)
    ELSE LET var1_name == equations[i][1]
             op        == equations[i][2]
             var2_name == equations[i][3]
             res_name  == equations[i][4]
         IN IF \/ ~HasKey(assignment, var1_name)
               \/ ~HasKey(assignment, var2_name)
               \/ ~HasKey(assignment, res_name)
            THEN Raise("KeyError", "assignment")
            ELSE LET val1    == Get(assignment, var1_name)
                     val2    == Get(assignment, var2_name)
                     res_val == Get(assignment, res_name)
                     se      == SimpleEquation(op, val1, val2, res_val)
                     ev      == evaluate(se)
                 IN IF ev.kind # "ok" THEN ev
                    ELSE IF ev.value # res_val THEN Ok(FALSE)
                    ELSE is_valid_assignment(assignment, equations, i + 1)

\* the outer loop (for p in permutations(values)) over permutations lo..hi,
\* entered with the list valid_solutions; an exception ends the loop
RECURSIVE valid_solutions_loop(_, _, _, _, _, _)
valid_solutions_loop(variables, perms, equations, lo, hi, valid_solutions) ==
    IF lo > hi THEN Ok(valid_solutions)
    ELSE IF lo = hi THEN
        LET assignment == zip(variables, perms[lo])
            r == is_valid_assignment(assignment, equations, 1)
        IN IF r.kind # "ok" THEN r
           ELSE IF r.value THEN Ok(Append(valid_solutions, assignment))
           ELSE Ok(valid_solutions)
    ELSE LET m == (lo + hi) \div 2
             first == valid_solutions_loop(variables, perms, equations, lo, m, valid_solutions)
         IN IF first.kind # "ok" THEN first
            ELSE valid_solutions_loop(variables, perms, equations, m + 1, hi, first.value)

verify_solution_set(n, equations) ==
    IF n < 1 \/ n > 26 THEN Raise("ValueError", "n must be between 1 and 26.")
    ELSE LET variables == symbols(n)
             values == range(1, n + 1)
             perms == permutations(values)
         IN valid_solutions_loop(variables, perms, equations, 1, Len(perms), <<>>)

\* Counter: solution_counter[key] += 1
CounterAdd(counter, key) ==
    IF HasKey(counter, key)
    THEN [i \in 1..Len(counter) |->
            IF counter[i][1] = key THEN <<key, counter[i][2] + 1>> ELSE counter[i]]
    ELSE Append(counter, <<key, 1>>)

\* the loop (for eq_bundle in equation_bundles) over bundles lo..hi, entered
\* with acc = <<solution_counter, unique_solution_options>>; an exception ends it
RECURSIVE solutions_loop(_, _, _, _, _)
solutions_loop(n, equation_bundles, lo, hi, acc) ==
    IF lo > hi THEN Ok(acc)
    ELSE IF lo = hi THEN
        LET eq_bundle == equation_bundles[lo]
            solutions == verify_solution_set(n, eq_bundle)
        IN IF solutions.kind # "ok" THEN solutions
           ELSE Ok(<<CounterAdd(acc[1], Len(solutions.value)),
                     IF Len(solutions.value) = 1
                     THEN Append(acc[2],
                             [equations |-> [j \in 1..Len(eq_bundle) |->
                                                stringify_equation(eq_bundle[j], <<>>)],
                              labels |-> solutions.value[1]])
                     ELSE acc[2]>>)
    ELSE LET m == (lo + hi) \div 2
             first == solutions_loop(n, equation_bundles, lo, m, acc)
         IN IF first.kind # "ok" THEN first
            ELSE solutions_loop(n, equation_bundles, m + 1, hi, first.value)

generate_all_solutions(n, num_eqs_to_use) ==
    IF num_eqs_to_use < 0 THEN Raise("ValueError", "r must be non-negative")
    ELSE LET my_equations == generate_all_equations(n)
             equation_bundles == combinations(my_equations, num_eqs_to_use)
         IN solutions_loop(n, equation_bundles, 1, Len(equation_bundles), <<<<>>, <<>>>>)

----------------------------------------------------------------------------
(* Relabeler (src/equations/solver.py) *)

Min(S) == CHOOSE x \in S : \A y \in S : x <= y

InsertAt(s, pos, x) == SubSeq(s, 1, pos - 1) \o <<x>> \o SubSeq(s, pos, Len(s))

\* sorted(keys, key=lambda k: labels[k]): stable, so equal values keep their order
RECURSIVE sorted_by_label(_, _, _, _)
sorted_by_label(keys, labels, i, acc) ==
    IF i > Len(keys) THEN acc
    ELSE LET notAfter == {j \in 1..Len(acc) : Get(labels, acc[j]) <= Get(labels, keys[i])}
         IN sorted_by_label(keys, labels, i + 1, InsertAt(acc, Cardinality(notAfter) + 1, keys[i]))

\* mutant: the list is sorted in descending order
RECURSIVE sort_strings_descending(_, _, _)
sort_strings_descending(strings, i, acc) ==
    IF i > Len(strings) THEN acc
    ELSE LET notAfter == {j \in 1..Len(acc) : ~StrLess(acc[j], strings[i])}
         IN sort_strings_descending(strings, i + 1,
                InsertAt(acc, Cardinality(notAfter) + 1, strings[i]))

\* list.sort() of a list of strings
RECURSIVE sort_strings(_, _, _)
sort_strings(strings, i, acc) ==
    IF i > Len(strings) THEN acc
    ELSE LET notAfter == {j \in 1..Len(acc) : ~StrLess(strings[i], acc[j])}
         IN sort_strings(strings, i + 1, InsertAt(acc, Cardinality(notAfter) + 1, strings[i]))

\* str.maketrans(relabel_map): every key must be a string of length 1
maketrans(relabel_map) ==
    IF \E k \in Keys(relabel_map) : Len(k) # 1
    THEN Raise("ValueError", "string keys in translate table must be of length 1")
    ELSE Ok(relabel_map)

\* mutant: the replacements are applied one after another, each to the
\* outcome of the one before
RECURSIVE translate_sequential_from(_, _, _)
translate_sequential_from(eq, translation_table, i) ==
    IF i > Len(translation_table) THEN eq
    ELSE translate_sequential_from(
             Flatten([j \in 1..Len(eq) |->
                 IF <<eq[j]>> = translation_table[i][1]
                 THEN translation_table[i][2]
                 ELSE <<eq[j]>>]),
             translation_table, i + 1)

translate_sequential(eq, translation_table) ==
    translate_sequential_from(eq, translation_table, 1)

\* eq.translate(translation_table)
translate(eq, translation_table) ==
    Flatten([i \in 1..Len(eq) |->
        IF HasKey(translation_table, <<eq[i]>>)
        THEN Get(translation_table, <<eq[i]>>)
        ELSE <<eq[i]>>])

\* the pieces of s between the characters of seps; with keep, the separators too
RECURSIVE split_at(_, _, _)
split_at(s, seps, keep) ==
    LET hits == {i \in 1..Len(s) : s[i] \in seps}
    IN IF hits = {} THEN <<s>>
       ELSE LET i == Min(hits)
            IN <<SubSeq(s, 1, i - 1)>> \o (IF keep THEN <<<<s[i]>>>> ELSE <<>>)
               \o split_at(SubSeq(s, i + 1, Len(s)), seps, keep)

\* re.split(r"([+*])", s)
re_split(s) == split_at(s, {Plus[1], Star[1]}, TRUE)

\* s.split("=")
split_equals(s) == split_at(s, {Equals[1]}, FALSE)

\* mutant: the operands are never swapped
canonical_eq_no_swap(eq, translation_table) ==
    LET relabeled_eq == translate(eq, translation_table)
        parts == re_split(relabeled_eq)
    IN IF Len(parts) < 3 THEN Raise("IndexError", "list index out of range")
       ELSE LET left1 == parts[1]
                op == parts[2]
                sides == split_equals(parts[3])
            IN IF Len(sides) # 2 THEN Raise("ValueError", "unpack")
               ELSE Ok(left1 \o op \o sides[1] \o Equals \o sides[2])

\* the body of the loop (for eq in equations): the canonical form of one equation
canonical_eq(eq, translation_table) ==
    LET relabeled_eq == translate(eq, translation_table)
        parts == re_split(relabeled_eq)
    IN IF Len(parts) < 3 THEN Raise("IndexError", "list index out of range")
       ELSE LET left1 == parts[1]
                op == parts[2]
                sides == split_equals(parts[3])
            IN IF Len(sides) # 2 THEN Raise("ValueError", "unpack")
               ELSE LET left2 == sides[1]
                        result == sides[2]
                    IN IF op \in {Plus, Star} /\ StrLess(left2, left1)
                       THEN Ok(left2 \o op \o left1 \o Equals \o result)
                       ELSE Ok(left1 \o op \o left2 \o Equals \o result)

\* string.ascii_uppercase[:k]
ascii_uppercase(k) == symbols(IF k > 26 THEN 26 ELSE k)

relabel(solution_set) ==
    LET equations == solution_set.equations
        labels == solution_set.labels
        keys == [i \in 1..Len(labels) |-> labels[i][1]]
        sorted_old_labels == sorted_by_label(keys, labels, 1, <<>>)
        new_labels_alpha == ascii_uppercase(Len(sorted_old_labels))
        relabel_map == zip(sorted_old_labels, new_labels_alpha)
        translation_table == maketrans(relabel_map)
    IN IF translation_table.kind # "ok" THEN translation_table
       ELSE LET canon == [i \in 1..Len(equations) |->
                            canonical_eq(equations[i], translation_table.value)]
                failed == {i \in 1..Len(equations) : canon[i].kind # "ok"}
            IN IF failed # {} THEN canon[Min(failed)]
               ELSE LET relabeled_equations ==
                            sort_strings([i \in 1..Len(equations) |-> canon[i].value], 1, <<>>)
                        new_labels_dict ==
                            [i \in 1..Len(new_labels_alpha) |-> <<new_labels_alpha[i], i>>]
                    IN Ok([equations |-> relabeled_equations, labels |-> new_labels_dict])

----------------------------------------------------------------------------
(* Calls *)

GeneratorSizes == (1 - Margin)..(26 + Margin)

Range(s) == {s[i] : i \in 1..Len(s)}

\* the lists of at most maxLen elements of the list universe
ListsOver(universe, maxLen) ==
    UNION {[1..len -> Range(universe)] : len \in 0..(IF maxLen > 0 THEN maxLen ELSE 0)}

\* verify_solution_set(n, equations): in-range n with bundles of compact
\* equations over the first n letters, and out-of-range n
VerifyArgs ==
    UNION {[n : {n}, equations : ListsOver(generator_generate_all_equations(n), SolveSize - n)]
           : n \in 1..(SolveSize - 1)}
    \cup [n : GeneratorSizes \ (1..26),
          equations : ListsOver(generator_generate_all_equations(1), 1)]

\* generate_all_solutions(n, num_eqs_to_use)
SolutionsArgs ==
    UNION {[n : {n}, num_eqs_to_use : 0..(SolveSize - n)] : n \in 1..(SolveSize - 1)}
    \cup [n : GeneratorSizes \ (1..26), num_eqs_to_use : 0..2]

\* relabel(solution_set): the labels are a one-to-one mapping of the first k
\* letters onto 1..k, inserted in any order; the equations are the strings of
\* compact equations over those letters
RelabelRecord(bundle, keys, values) ==
    [equations |-> [i \in 1..Len(bundle) |-> stringify_equation(bundle[i], <<>>)],
     labels |-> zip(keys, values)]

\* the record of tests/test_equations.py, test_relabel_and_canonicalize
TestRelabelRecord ==
    [equations |-> << <<67, 43, 65, 61, 66>>, <<66, 42, 65, 61, 67>> >>,
     labels |-> << <<<<65>>, 1>>, <<<<66>>, 3>>, <<<<67>>, 2>> >>]

\* SimpleEquation instances: supported and unsupported operator strings,
\* operands that are negative, zero or positive
Minus == <<45>>
OperatorStrings == {Plus, Star, Minus, <<>>, Plus \o Plus}
Operands == (0 - 1)..MaxOperand
Equations == [op : OperatorStrings, var1 : Operands, var2 : Operands, var3 : Operands]

\* the documented examples of equivalent: 3 + 4 = 7 against 4 + 3 = 7 and 3 + 5 = 7
ExampleEquivalentArgs ==
    {[self |-> SimpleEquation(Plus, 3, 4, 7), other |-> SimpleEquation(Plus, 4, 3, 7)],
     [self |-> SimpleEquation(Plus, 3, 5, 7), other |-> SimpleEquation(Plus, 3, 4, 7)],
     [self |-> SimpleEquation(Plus, 3, 4, 7), other |-> SimpleEquation(Plus, 3, 5, 7)]}

PositiveEquations == [op : VALID_OPS, var1 : 1..MaxOperand, var2 : 1..MaxOperand, var3 : 1..MaxOperand]

EquivalentArgs == [self : PositiveEquations, other : PositiveEquations] \cup ExampleEquivalentArgs

Init ==
    /\ pc = "call"
    /\ ret = NoResult
    /\ \/ /\ fn \in {"generate_all_equations", "generator_generate_all_equations",
                     "generate_representative_equations"}
          /\ arg \in [n : GeneratorSizes]
       \/ /\ fn = "verify_solution_set"
          /\ arg \in VerifyArgs
       \/ /\ fn = "generate_all_solutions"
          /\ arg \in SolutionsArgs
       \/ /\ fn = "relabel"
          /\ \/ \E k \in 0..(RelabelSize - 1) :
                   \E bundle \in ListsOver(generator_generate_all_equations(k), RelabelSize - k),
                      keys \in Range(permutations(symbols(k))),
                      values \in Range(permutations(range(1, k + 1))) :
                        arg = RelabelRecord(bundle, keys, values)
             \/ arg = TestRelabelRecord
       \/ /\ fn \in {"is_valid", "validate"}
          /\ arg \in [self : Equations, require_consistency : BOOLEAN]
       \/ /\ fn = "equivalent"
          /\ arg \in EquivalentArgs

VerifySolutionSet ==
    /\ pc = "call"
    /\ fn = "verify_solution_set"
    /\ ret' = verify_solution_set(arg.n, arg.equations)
    /\ pc' = "done"
    /\ UNCHANGED <<fn, arg>>

GenerateAllSolutions ==
    /\ pc = "call"
    /\ fn = "generate_all_solutions"
    /\ ret' = generate_all_solutions(arg.n, arg.num_eqs_to_use)
    /\ pc' = "done"
    /\ UNCHANGED <<fn, arg>>

GenerateAllEquations ==
    /\ pc = "call"
    /\ fn = "generate_all_equations"
    /\ ret' = Ok(generate_all_equations(arg.n))
    /\ pc' = "done"
    /\ UNCHANGED <<fn, arg>>

GeneratorGenerateAllEquations ==
    /\ pc = "call"
    /\ fn = "generator_generate_all_equations"
    /\ ret' = Ok(generator_generate_all_equations(arg.n))
    /\ pc' = "done"
    /\ UNCHANGED <<fn, arg>>

GenerateRepresentativeEquations ==
    /\ pc = "call"
    /\ fn = "generate_representative_equations"
    /\ ret' = Ok(generate_representative_equations(arg.n))
    /\ pc' = "done"
    /\ UNCHANGED <<fn, arg>>

Relabel ==
    /\ pc = "call"
    /\ fn = "relabel"
    /\ ret' = relabel(arg)
    /\ pc' = "done"
    /\ UNCHANGED <<fn, arg>>

IsValid ==
    /\ pc = "call"
    /\ fn = "is_valid"
    /\ ret' = is_valid(arg.self, arg.require_consistency)
    /\ pc' = "done"
    /\ UNCHANGED <<fn, arg>>

Validate ==
    /\ pc = "call"
    /\ fn = "validate"
    /\ ret' = validate(arg.self, arg.require_consistency)
    /\ pc' = "done"
    /\ UNCHANGED <<fn, arg>>

Equivalent ==
    /\ pc = "call"
    /\ fn = "equivalent"
    /\ ret' = Ok(equivalent(arg.self, arg.other))
    /\ pc' = "done"
    /\ UNCHANGED <<fn, arg>>

Next ==
    \/ GenerateAllEquations
    \/ GeneratorGenerateAllEquations
    \/ GenerateRepresentativeEquations
    \/ VerifySolutionSet
    \/ GenerateAllSolutions
    \/ Relabel
    \/ IsValid
    \/ Validate
    \/ Equivalent

Spec == Init /\ [][Next]_vars

----------------------------------------------------------------------------
(* Properties *)

Done(f) == pc = "done" /\ fn = f

InRange(n) == n \in 1..26

\* the first n uppercase letters, as one-character strings
Letters(n) == {<<ord_A + i>> : i \in 0..(n - 1)}

\* the one-to-one assignments of 1..n to the first n letters
AssignmentsOf ==
    [n \in 1..SolveSize |->
        {f \in [Letters(n) -> 1..n] : \A a, b \in Letters(n) : a # b => f[a] # f[b]}]

\* assignment f makes the compact equation (x, op, y, z) true
Holds(f, eq) ==
    IF eq[2] = Plus THEN f[eq[1]] + f[eq[3]] = f[eq[4]]
    ELSE f[eq[1]] * f[eq[3]] = f[eq[4]]

Satisfying(n, bundle) ==
    {f \in AssignmentsOf[n] : \A i \in 1..Len(bundle) : Holds(f, bundle[i])}

RECURSIVE Factorial(_)
Factorial(n) == IF n <= 1 THEN 1 ELSE n * Factorial(n - 1)

A_plus_B_is_C == << <<ord_A>>, Plus, <<ord_A + 1>>, <<ord_A + 2>> >>

\* C1: for n in [1,26] and a bundle of compact equations over the first n
\* letters, verify_solution_set returns exactly the one-to-one assignments
\* onto 1..n under which every equation of the bundle holds; for n = 3 and
\* the bundle [A+B=C] these are {A:1,B:2,C:3} and {A:2,B:1,C:3}; for the empty
\* bundle they are all n! assignments.
C1_VerifyReturnsExactlyTheSolutions ==
    (Done("verify_solution_set") /\ InRange(arg.n)) =>
        /\ ret.kind = "ok"
        /\ {DictFn(ret.value[i]) : i \in 1..Len(ret.value)} = Satisfying(arg.n, arg.equations)
        /\ arg.equations = <<>> => Len(ret.value) = Factorial(arg.n)
        /\ (arg.n = 3 /\ arg.equations = <<A_plus_B_is_C>>) =>
                /\ Len(ret.value) = 2
                /\ {DictFn(ret.value[i]) : i \in 1..2} =
                       {(<<65>> :> 1) @@ (<<66>> :> 2) @@ (<<67>> :> 3),
                        (<<65>> :> 2) @@ (<<66>> :> 1) @@ (<<67>> :> 3)}

\* C1 witness: a bundle of two equations over three letters that some, but
\* not all, assignments satisfy
C1_Witness ==
    /\ Done("verify_solution_set")
    /\ arg.n = 3
    /\ Len(arg.equations) = 2
    /\ arg.equations[1] # arg.equations[2]
    /\ ret.kind = "ok"
    /\ Len(ret.value) = 1

\* C2: generate_all_equations(n) has exactly 2*n^3 elements for n in [1,26]
\* and is empty for every other n; every element is a 4-tuple and none
\* occurs twice.
C2_AllEquationsCount ==
    (Done("generate_all_equations") \/ Done("generator_generate_all_equations")) =>
        /\ ret.kind = "ok"
        /\ InRange(arg.n) => Len(ret.value) = 2 * arg.n * arg.n * arg.n
        /\ ~InRange(arg.n) => ret.value = <<>>
        /\ \A i \in 1..Len(ret.value) : Len(ret.value[i]) = 4
        /\ Cardinality(Range(ret.value)) = Len(ret.value)

\* C2 witness: the largest alphabet, 26 letters, gives 35152 equations
C2_Witness ==
    /\ Done("generate_all_equations")
    /\ arg.n = 26
    /\ Len(ret.value) = 35152

\* the equation (x, op, y, z) at position i of the product order over n
\* letters: x outermost, then y, then z, and '+' before '*' for each triple
ExpectedEquation(n, i) ==
    LET t == (i - 1) \div 2
        letter(j) == <<ord_A + j>>
    IN <<letter(t \div (n * n)),
         IF (i - 1) % 2 = 0 THEN Plus ELSE Star,
         letter((t \div n) % n),
         letter(t % n)>>

\* C3: in each definition of generate_all_equations, every element is a
\* compact equation (x, op, y, z) with x, y, z among the first n letters and
\* op in {+, *}, in product order over (x, y, z) with x outermost and '+'
\* immediately before '*' for each triple.
C3_AllEquationsShapeAndOrder ==
    (Done("generate_all_equations") \/ Done("generator_generate_all_equations")) =>
        \A i \in 1..Len(ret.value) :
            /\ ret.value[i] = ExpectedEquation(arg.n, i)
            /\ ret.value[i][1] \in Letters(arg.n)
            /\ ret.value[i][2] \in {Plus, Star}
            /\ ret.value[i][3] \in Letters(arg.n)
            /\ ret.value[i][4] \in Letters(arg.n)

\* the dict {A: 1, B: 2, ...} over the first k letters, as a function
AlphabeticalLabels(k) == [l \in Letters(k) |-> l[1] - ord_A + 1]

CanonicalRecord(r) ==
    /\ DictFn(r.labels) = AlphabeticalLabels(Len(r.labels))
    /\ \A i \in 1..Len(r.equations) : r.equations[i][1] <= r.equations[i][3]
    /\ \A i, j \in 1..Len(r.equations) :
            i < j => ~StrLess(r.equations[j], r.equations[i])

\* C5: relabel returns a canonical record unchanged (same equation list, same
\* labels), and relabel(relabel(r)) = relabel(r) for every record r whose
\* labels are one-to-one onto 1..k.
C5_RelabelIdempotent ==
    Done("relabel") =>
        /\ ret.kind = "ok"
        /\ CanonicalRecord(arg) =>
                /\ ret.value.equations = arg.equations
                /\ DictFn(ret.value.labels) = DictFn(arg.labels)
        /\ relabel(ret.value) = ret

\* C5 witness: a canonical record of two different equations whose labels
\* were not inserted in alphabetical order
C5_Witness ==
    /\ Done("relabel")
    /\ CanonicalRecord(arg)
    /\ Len(arg.equations) = 2
    /\ arg.equations[1] # arg.equations[2]
    /\ arg.labels[1][1] # <<ord_A>>
    /\ ret.kind = "ok"

RangeError == Raise("ValueError", "n must be between 1 and 26.")

\* C6: for n outside [1,26], verify_solution_set fails with the range error
\* whatever the bundle, while generate_all_equations and
\* generate_representative_equations return an empty list.
C6_OutOfRangeAsymmetry ==
    /\ (Done("verify_solution_set") /\ ~InRange(arg.n)) => ret = RangeError
    /\ \A generator \in {"generate_all_equations", "generator_generate_all_equations",
                         "generate_representative_equations"} :
            (Done(generator) /\ ~InRange(arg.n)) => ret = Ok(<<>>)

\* C6 witness: verify_solution_set called with n = 27 and a non-empty bundle
C6_Witness ==
    /\ Done("verify_solution_set")
    /\ arg.n = 27
    /\ arg.equations # <<>>
    /\ ret.kind = "ValueError"

RECURSIVE Binomial(_, _)
Binomial(n, k) ==
    IF k < 0 \/ k > n THEN 0
    ELSE IF k = 0 THEN 1
    ELSE (Binomial(n - 1, k - 1) * n) \div k

RECURSIVE SumCounts(_, _)
SumCounts(counter, i) ==
    IF i > Len(counter) THEN 0 ELSE counter[i][2] + SumCounts(counter, i + 1)

CountFor(counter, key) == IF HasKey(counter, key) THEN Get(counter, key) ELSE 0

\* the bundles with exactly one solution, in enumeration order
UniqueBundles(n, bundles) ==
    SelectSeq(bundles, LAMBDA b : Cardinality(Satisfying(n, b)) = 1)

\* C7: for n in [1,26] and 0 <= k <= 2*n^3, generate_all_solutions(n, k)
\* completes without error; its counts sum to C(2*n^3, k); the number of
\* records equals the count for key 1; the records appear in bundle order;
\* each record holds the stringified equations of its bundle and the one
\* assignment verify_solution_set returns for it.
C7_AllSolutionsConsistent ==
    (/\ Done("generate_all_solutions")
     /\ InRange(arg.n)
     /\ arg.num_eqs_to_use >= 0
     /\ arg.num_eqs_to_use <= 2 * arg.n * arg.n * arg.n) =>
        /\ ret.kind = "ok"
        /\ LET counter == ret.value[1]
               records == ret.value[2]
               bundles == combinations(generator_generate_all_equations(arg.n),
                                       arg.num_eqs_to_use)
               unique == UniqueBundles(arg.n, bundles)
           IN /\ SumCounts(counter, 1) = Binomial(2 * arg.n * arg.n * arg.n, arg.num_eqs_to_use)
              /\ Len(records) = CountFor(counter, 1)
              /\ Len(records) = Len(unique)
              /\ \A i \in 1..Len(records) :
                    /\ records[i].equations =
                         [j \in 1..Len(unique[i]) |-> stringify_equation(unique[i][j], <<>>)]
                    /\ verify_solution_set(arg.n, unique[i]) = Ok(<<records[i].labels>>)

\* C8: e1.equivalent(e2) is true iff the operators are equal, the results are
\* equal and the operands are equal as an unordered pair; so equivalent is
\* reflexive and symmetric, 3+4=7 is equivalent to 4+3=7 and not to 3+5=7.
C8_EquivalentUnorderedPair ==
    Done("equivalent") =>
        /\ ret.value =
              (/\ arg.self.op = arg.other.op
               /\ arg.self.var3 = arg.other.var3
               /\ \/ arg.self.var1 = arg.other.var1 /\ arg.self.var2 = arg.other.var2
                  \/ arg.self.var1 = arg.other.var2 /\ arg.self.var2 = arg.other.var1)
        /\ equivalent(arg.self, arg.self)
        /\ equivalent(arg.other, arg.self) = ret.value
        /\ (arg.self = SimpleEquation(Plus, 3, 4, 7) /\ arg.other = SimpleEquation(Plus, 4, 3, 7))
                => ret.value = TRUE
        /\ (arg.self = SimpleEquation(Plus, 3, 4, 7) /\ arg.other = SimpleEquation(Plus, 3, 5, 7))
                => ret.value = FALSE

\* C8 witness: two equations with swapped, different operands are equivalent
C8_Witness ==
    /\ Done("equivalent")
    /\ arg.self.var1 # arg.self.var2
    /\ arg.self.var1 = arg.other.var2
    /\ arg.self.var2 = arg.other.var1
    /\ ret = Ok(TRUE)

\* the check of validate that fails first: bad operator, then non-positive
\* operand, then inconsistent result
FirstFailedCheck(e, require_consistency) ==
    IF e.op \notin {Plus, Star} THEN "operator"
    ELSE IF e.var1 <= 0 \/ e.var2 <= 0 \/ e.var3 <= 0 THEN "operand"
    ELSE IF /\ require_consistency
            /\ (IF e.op = Plus THEN e.var1 + e.var2 ELSE e.var1 * e.var2) # e.var3
         THEN "consistency"
    ELSE "none"

\* the check a result of validate reports
ReportedCheck(r) ==
    IF r = Ok("None") THEN "none"
    ELSE IF r.kind # "ValueError" THEN "other"
    ELSE IF r.msg = "Operator must be one of ['*', '+']." THEN "operator"
    ELSE IF r.msg \in {"var1 must be a positive integer (>0).",
                       "var2 must be a positive integer (>0).",
                       "var3 must be a positive integer (>0)."} THEN "operand"
    ELSE IF r.msg = "Inconsistent equation" THEN "consistency"
    ELSE "other"

\* C9: is_valid never fails, whatever the operator string and the operands,
\* and returns true exactly when validate completes without error; validate
\* reports the first failed check in the order bad operator, non-positive
\* operand, inconsistent result.
C9_IsValidAgreesWithValidate ==
    /\ Done("is_valid") =>
            /\ ret.kind = "ok"
            /\ ret.value = (validate(arg.self, arg.require_consistency).kind = "ok")
    /\ Done("validate") =>
            /\ ReportedCheck(ret) = FirstFailedCheck(arg.self, arg.require_consistency)
            /\ (ret.kind = "ok") = is_valid(arg.self, arg.require_consistency).value

\* C9 witness: is_valid called with consistency required on an equation of
\* positive operands whose operator is unsupported
C9_Witness ==
    /\ Done("is_valid")
    /\ arg.self.op \notin {Plus, Star}
    /\ arg.self.var1 > 0 /\ arg.self.var2 > 0 /\ arg.self.var3 > 0
    /\ arg.require_consistency
    /\ ret = Ok(FALSE)

\* the triple (x, y, z) of block b of a representative list: its eighth form is x op y = z
BlockTriple(eqs, b) == <<eqs[8 * b][1][1], eqs[8 * b][3][1], eqs[8 * b][4][1]>>

\* C10: generate_representative_equations(n) has 2 equations for n = 1, 6
\* for n = 2 and 8*C(n,3) for n in [3,26]; for n >= 3 it is, for each
\* combination x < y < z of the alphabet in combination order, the eight
\* equations x op x = x, x op x = y, x op y = x, x op y = z for op in {+, *};
\* every equation uses only the first n letters.
C10_RepresentativeEquations ==
    (Done("generate_representative_equations") /\ InRange(arg.n)) =>
        /\ ret.kind = "ok"
        /\ arg.n = 1 => Len(ret.value) = 2
        /\ arg.n = 2 => Len(ret.value) = 6
        /\ \A i \in 1..Len(ret.value) :
                /\ Len(ret.value[i]) = 4
                /\ ret.value[i][1] \in Letters(arg.n)
                /\ ret.value[i][2] \in {Plus, Star}
                /\ ret.value[i][3] \in Letters(arg.n)
                /\ ret.value[i][4] \in Letters(arg.n)
        /\ arg.n >= 3 =>
                /\ Len(ret.value) = 8 * Binomial(arg.n, 3)
                /\ \A b \in 1..Binomial(arg.n, 3) :
                      LET t == BlockTriple(ret.value, b)
                          x == <<t[1]>>
                          y == <<t[2]>>
                          z == <<t[3]>>
                      IN /\ t[1] < t[2] /\ t[2] < t[3]
                         /\ SubSeq(ret.value, 8 * b - 7, 8 * b) =
                              << <<x, Plus, x, x>>, <<x, Star, x, x>>,
                                 <<x, Plus, x, y>>, <<x, Star, x, y>>,
                                 <<x, Plus, y, x>>, <<x, Star, y, x>>,
                                 <<x, Plus, y, z>>, <<x, Star, y, z>> >>
                         /\ b > 1 => StrLess(BlockTriple(ret.value, b - 1), t)

\* C10 witness: four letters give the four combinations ABC, ABD, ACD, BCD
C10_Witness ==
    /\ Done("generate_representative_equations")
    /\ arg.n = 4
    /\ Len(ret.value) = 32
    /\ BlockTriple(ret.value, 4) = <<66, 67, 68>>

\* C11: for every n outside [1,26] and every bundle size k >= 0,
\* generate_all_solutions fails with the range error instead of returning an
\* empty frequency table and an empty record list.
C11_AllSolutionsOutOfRangeFails ==
    (/\ Done("generate_all_solutions")
     /\ ~InRange(arg.n)
     /\ arg.num_eqs_to_use >= 0) => ret = RangeError

\* the values an assignment gives to the first n letters, in letter order
ValueTuple(assignment, n) == [j \in 1..n |-> Get(assignment, <<ord_A + j - 1>>)]

\* C12: every assignment verify_solution_set returns has exactly the first n
\* letters as keys, pairwise distinct values, and every value in 1..n; the
\* list holds no assignment twice, and its assignments appear in
\* lexicographic order of their value tuples (value of A, value of B, ...).
C12_SolutionsAreOrderedPermutations ==
    (Done("verify_solution_set") /\ ret.kind = "ok") =>
        /\ \A i \in 1..Len(ret.value) :
              /\ Len(ret.value[i]) = arg.n
              /\ Keys(ret.value[i]) = Letters(arg.n)
              /\ {ret.value[i][j][2] : j \in 1..arg.n} = 1..arg.n
        /\ \A i, j \in 1..Len(ret.value) :
              i < j => /\ DictFn(ret.value[i]) # DictFn(ret.value[j])
                       /\ StrLess(ValueTuple(ret.value[i], arg.n),
                                  ValueTuple(ret.value[j], arg.n))

\* C12 witness: a non-empty bundle over three letters with several solutions
C12_Witness ==
    /\ Done("verify_solution_set")
    /\ arg.n = 3
    /\ arg.equations # <<>>
    /\ ret.kind = "ok"
    /\ Len(ret.value) >= 2

\* the labels are a one-to-one mapping of k uppercase letters onto 1..k
BijectiveLabels(labels) ==
    /\ \A i \in 1..Len(labels) :
          /\ Len(labels[i][1]) = 1
          /\ labels[i][1][1] \in ord_A..(ord_A + 25)
    /\ Cardinality(Keys(labels)) = Len(labels)
    /\ {labels[i][2] : i \in 1..Len(labels)} = 1..Len(labels)

\* e is a string X op Y = Z over the letters of keys, op being + or *
EquationString(e, keys) ==
    /\ Len(e) = 5
    /\ \A p \in {1, 3, 5} : <<e[p]>> \in keys
    /\ <<e[2]>> \in {Plus, Star}
    /\ <<e[4]>> = Equals

\* the labels f satisfy the equation string e
SatisfiedString(f, e) ==
    IF <<e[2]>> = Plus
    THEN f[<<e[1]>>] + f[<<e[3]>>] = f[<<e[5]>>]
    ELSE f[<<e[1]>>] * f[<<e[3]>>] = f[<<e[5]>>]

\* a record whose labels are one-to-one onto 1..k and satisfy all its equations
SatisfiedRecord(r) ==
    /\ BijectiveLabels(r.labels)
    /\ \A i \in 1..Len(r.equations) :
          /\ EquationString(r.equations[i], Keys(r.labels))
          /\ SatisfiedString(DictFn(r.labels), r.equations[i])

\* C13: relabel preserves satisfaction: for a record whose labels are a
\* bijection from k uppercase letters onto 1..k and whose equations are all
\* satisfied by those labels, the returned labels are {A:1, ..., k-th letter:k}
\* and satisfy every returned equation, the returned list has as many
\* equations as the input, each returned equation has its first left operand
\* <= its second, and the returned list is sorted.
C13_RelabelPreservesSatisfaction ==
    (Done("relabel") /\ SatisfiedRecord(arg)) =>
        /\ ret.kind = "ok"
        /\ DictFn(ret.value.labels) = AlphabeticalLabels(Len(arg.labels))
        /\ Len(ret.value.equations) = Len(arg.equations)
        /\ \A i \in 1..Len(ret.value.equations) :
              LET e == ret.value.equations[i]
              IN /\ EquationString(e, Keys(ret.value.labels))
                 /\ SatisfiedString(DictFn(ret.value.labels), e)
                 /\ e[1] <= e[3]
        /\ \A i, j \in 1..Len(ret.value.equations) :
              i < j => ~StrLess(ret.value.equations[j], ret.value.equations[i])

\* C13 witness: two different satisfied equations under labels that are not
\* alphabetical, so that the letters are exchanged and an operand pair swapped
C13_Witness ==
    /\ Done("relabel")
    /\ SatisfiedRecord(arg)
    /\ Len(arg.equations) = 2
    /\ arg.equations[1] # arg.equations[2]
    /\ DictFn(arg.labels) # AlphabeticalLabels(Len(arg.labels))
    /\ ret.kind = "ok"
    /\ \E i \in 1..2 : ret.value.equations[i] # arg.equations[i]

====
